---- MODULE Spec2Model ----
(***************************************************************************)
(* pdf-craft: the remote OCR backend (pdf_craft/pdf/api_extractor.py) and  *)
(* the interruption classifier (pdf_craft/error.py).                       *)
(*                                                                         *)
(* One APIPageExtractor instance, driven by a single synchronous caller;   *)
(* the caller's abort probe may change its answer at any time.             *)
(***************************************************************************)
EXTENDS Integers, Sequences, FiniteSets, TLC

VARIABLES
    pc,          \* position of the caller inside image2page: "idle", "request", "respond"
    args,        \* arguments of the image2page call in progress / last made
    aborted,     \* what the caller's abort probe currently answers
    importable,  \* whether `from doc_page_extractor import ...` succeeds
    client,      \* self._client: 0 is None, n > 0 is the n-th constructed client
    constructed, \* number of successful OpenAI(...) constructions
    requests,    \* number of client.chat.completions.create calls issued
    calls,       \* number of image2page calls started
    response,    \* what the transport produced for the call in progress / last made
    trace,       \* events of the image2page call in progress / last made
    result,      \* how the last image2page call ended
    cls,         \* what to_interrupted_error made of the last raised error
    lastOp       \* the operation the caller ran last

vars == <<pc, args, aborted, importable, client, constructed, requests, calls,
          response, trace, result, cls, lastOp>>

-----------------------------------------------------------------------------
(* Bounds *)

MaxTok == 2
MaxLen == 3
MaxSide == 2
MaxPage == 1
MaxCalls == 2

Tokens == 0..MaxTok

-----------------------------------------------------------------------------
(* Exceptions *)

\* The classes an exception is an instance of (Python's isinstance).
Mro(type) ==
    CASE type = "KeyboardInterrupt" -> {"KeyboardInterrupt", "BaseException"}
      [] type = "Exception" -> {"Exception", "BaseException"}
      [] type = "AttributeError" -> {"AttributeError", "Exception", "BaseException"}
      [] type = "PDFError" -> {"PDFError", "Exception", "BaseException"}
      [] type = "OCRError" -> {"OCRError", "Exception", "BaseException"}
      [] type = "TokenLimitError" -> {"TokenLimitError", "Exception", "BaseException"}
      [] type = "AbortError" -> {"AbortError", "Exception", "BaseException"}
      [] type = "DPEAbortError" ->
            {"DPEAbortError", "ExtractionAbortedError", "Exception", "BaseException"}
      [] type = "DPETokenLimitError" ->
            {"DPETokenLimitError", "ExtractionAbortedError", "Exception", "BaseException"}
      [] type = "DPEOtherAbortedError" ->
            {"ExtractionAbortedError", "Exception", "BaseException"}

IsInstance(error, class) == class \in Mro(error.type)

\* An exception without token attributes of its own.
PlainError(type) ==
    [type |-> type, attached |-> FALSE, input_tokens |-> 0, output_tokens |-> 0]

\* An exception whose instance carries input_tokens / output_tokens.
TokenError(type, i, o) ==
    [type |-> type, attached |-> TRUE, input_tokens |-> i, output_tokens |-> o]

TokenLimitError(i, o) == TokenError("TokenLimitError", i, o)

\* AbortError() has no __init__: the counts are the class attributes unless attached.
AbortError == PlainError("AbortError")

OCRError(page_index, step_index, cause) ==
    [type |-> "OCRError", attached |-> FALSE, input_tokens |-> 0, output_tokens |-> 0,
     page_index |-> page_index, step_index |-> step_index, cause |-> cause]

\* getattr(error, "input_tokens" / "output_tokens", default)
GetTokens(error, default) ==
    IF error.attached
    THEN <<error.input_tokens, error.output_tokens>>
    ELSE IF error.type = "AbortError" THEN <<0, 0>> ELSE <<default, default>>

-----------------------------------------------------------------------------
(* The interruption classifier *)

NotInterrupted == [kind |-> "None"]

InterruptedError(kind, tokens) ==
    [kind |-> kind,
     metering |-> [input_tokens |-> tokens[1], output_tokens |-> tokens[2]]]

\* Variant: the optional library's hierarchy is probed before the local shapes.
to_interrupted_error_library_first(error, lib) ==
    IF ~lib
    THEN [outcome |-> NotInterrupted, import_attempted |-> TRUE]
    ELSE IF IsInstance(error, "DPEAbortError")
    THEN [outcome |-> InterruptedError("ABORT",
                                       <<error.input_tokens, error.output_tokens>>),
          import_attempted |-> TRUE]
    ELSE IF IsInstance(error, "DPETokenLimitError")
    THEN [outcome |-> InterruptedError("TOKEN_LIMIT_EXCEEDED",
                                       <<error.input_tokens, error.output_tokens>>),
          import_attempted |-> TRUE]
    ELSE IF IsInstance(error, "TokenLimitError")
    THEN [outcome |-> InterruptedError("TOKEN_LIMIT_EXCEEDED",
                                       <<error.input_tokens, error.output_tokens>>),
          import_attempted |-> TRUE]
    ELSE IF IsInstance(error, "AbortError")
    THEN [outcome |-> InterruptedError("ABORT", GetTokens(error, 0)),
          import_attempted |-> TRUE]
    ELSE [outcome |-> NotInterrupted, import_attempted |-> TRUE]

\* Variant: an ExtractionAbortedError of neither subtype is taken for an abort.
to_interrupted_error_base_is_abort(error, lib) ==
    IF IsInstance(error, "TokenLimitError")
    THEN [outcome |-> InterruptedError("TOKEN_LIMIT_EXCEEDED",
                                       <<error.input_tokens, error.output_tokens>>),
          import_attempted |-> FALSE]
    ELSE IF IsInstance(error, "AbortError")
    THEN [outcome |-> InterruptedError("ABORT", GetTokens(error, 0)),
          import_attempted |-> FALSE]
    ELSE IF ~lib
    THEN [outcome |-> NotInterrupted, import_attempted |-> TRUE]
    ELSE IF IsInstance(error, "ExtractionAbortedError")
    THEN [outcome |-> InterruptedError(IF IsInstance(error, "DPETokenLimitError")
                                       THEN "TOKEN_LIMIT_EXCEEDED" ELSE "ABORT",
                                       <<error.input_tokens, error.output_tokens>>),
          import_attempted |-> TRUE]
    ELSE [outcome |-> NotInterrupted, import_attempted |-> TRUE]

to_interrupted_error(error, lib) ==
    IF IsInstance(error, "TokenLimitError")
    THEN [outcome |-> InterruptedError("TOKEN_LIMIT_EXCEEDED",
                                       <<error.input_tokens, error.output_tokens>>),
          import_attempted |-> FALSE]
    ELSE IF IsInstance(error, "AbortError")
    THEN [outcome |-> InterruptedError("ABORT", GetTokens(error, 0)),
          import_attempted |-> FALSE]
    ELSE IF ~lib
    THEN [outcome |-> NotInterrupted, import_attempted |-> TRUE]
    ELSE IF IsInstance(error, "ExtractionAbortedError")
              /\ IsInstance(error, "DPEAbortError")
    THEN [outcome |-> InterruptedError("ABORT",
                                       <<error.input_tokens, error.output_tokens>>),
          import_attempted |-> TRUE]
    ELSE IF IsInstance(error, "ExtractionAbortedError")
              /\ IsInstance(error, "DPETokenLimitError")
    THEN [outcome |-> InterruptedError("TOKEN_LIMIT_EXCEEDED",
                                       <<error.input_tokens, error.output_tokens>>),
          import_attempted |-> TRUE]
    ELSE [outcome |-> NotInterrupted, import_attempted |-> TRUE]

-----------------------------------------------------------------------------
(* The cooperative abort check *)

NoError == [type |-> "None"]

\* The signal raised when the probe answers true: the optional library's
\* AbortError when it can be imported, the local AbortError otherwise.
AbortSignal(lib) ==
    IF lib THEN TokenError("DPEAbortError", 0, 0) ELSE AbortError

check_aborted(probe, lib) == IF probe THEN AbortSignal(lib) ELSE NoError

-----------------------------------------------------------------------------
(* Text *)

\* Characters: a letter, a whitespace character, a lone surrogate code point.
Chars == {"a", " ", "S"}

IsSpace(c) == c = " "

IsSurrogate(c) == c = "S"

RECURSIVE LStrip(_)
LStrip(s) == IF s # <<>> /\ IsSpace(Head(s)) THEN LStrip(Tail(s)) ELSE s

RECURSIVE RStrip(_)
RStrip(s) ==
    IF s # <<>> /\ IsSpace(s[Len(s)]) THEN RStrip(SubSeq(s, 1, Len(s) - 1)) ELSE s

\* str.strip()
Strip(s) == RStrip(LStrip(s))

\* common.remove_surrogates
remove_surrogates(s) == SelectSeq(s, LAMBDA c : ~IsSurrogate(c))

\* _normalize_text on a str (None never reaches it from image2page)
_normalize_text(text) ==
    IF text = <<>> THEN <<>> ELSE Strip(remove_surrogates(text))

RECURSIVE TextsOfLen(_)
TextsOfLen(n) ==
    IF n = 0 THEN {<<>>}
    ELSE {Append(t, c) : t \in TextsOfLen(n - 1), c \in Chars}

Texts == UNION {TextsOfLen(n) : n \in 0..MaxLen}

-----------------------------------------------------------------------------
(* Responses of the chat/completions endpoint *)

NoneValue == [tag |-> "none"]

StrValue(s) == [tag |-> "str", val |-> s]

Choice(content) == [message |-> [tag |-> "obj", content |-> content]]

ChoiceWithoutMessage == [message |-> NoneValue]

ChoiceList(items) == [tag |-> "list", items |-> items]

IntValue(n) == [tag |-> "int", val |-> n]

Usage(prompt, completion) ==
    [tag |-> "obj", prompt_tokens |-> prompt, completion_tokens |-> completion]

UsageFields == {[tag |-> "absent"], NoneValue} \cup {IntValue(n) : n \in Tokens}

ChoicesShapes ==
    {[tag |-> "noattr"], NoneValue, ChoiceList(<<>>), ChoiceList(<<ChoiceWithoutMessage>>),
     ChoiceList(<<Choice(NoneValue)>>)}
    \cup {ChoiceList(<<Choice(StrValue(t))>>) : t \in Texts}

UsageShapes ==
    {[tag |-> "noattr"], NoneValue}
    \cup {Usage(p, c) : p \in UsageFields, c \in UsageFields}

Response(choices, usage) == [tag |-> "response", choices |-> choices, usage |-> usage]

Responses == {Response(c, u) : c \in ChoicesShapes, u \in UsageShapes}

NoResponse == [tag |-> "none"]

\* Variant: response.choices[0] is read without the `if response.choices` guard.
ResponseContentUnguarded(r) ==
    IF r.choices.tag \in {"noattr", "none"} \/ r.choices.items = <<>>
    THEN [ok |-> FALSE, val |-> <<>>]
    ELSE LET message == r.choices.items[1].message IN
         IF message.tag = "none" THEN [ok |-> FALSE, val |-> <<>>]
         ELSE IF message.content.tag = "none" THEN [ok |-> TRUE, val |-> <<>>]
         ELSE [ok |-> TRUE, val |-> Strip(message.content.val)]

\* (response.choices[0].message.content or "").strip() if response.choices else ""
\* ok is FALSE where the expression raises AttributeError.
ResponseContent(r) ==
    IF r.choices.tag = "noattr" THEN [ok |-> FALSE, val |-> <<>>]
    ELSE IF r.choices.tag = "none" \/ r.choices.items = <<>>
    THEN [ok |-> TRUE, val |-> <<>>]
    ELSE LET message == r.choices.items[1].message IN
         IF message.tag = "none" THEN [ok |-> FALSE, val |-> <<>>]
         ELSE IF message.content.tag = "none" THEN [ok |-> TRUE, val |-> <<>>]
         ELSE [ok |-> TRUE, val |-> Strip(message.content.val)]

\* getattr(response.usage, name, 0) or 0
UsageField(f) == IF f.tag = "int" THEN f.val ELSE 0

\* <<input_tokens, output_tokens>> read from the response
ResponseUsage(r) ==
    IF r.usage.tag \in {"noattr", "none"} THEN <<0, 0>>
    ELSE <<UsageField(r.usage.prompt_tokens), UsageField(r.usage.completion_tokens)>>

-----------------------------------------------------------------------------
(* Pages *)

Images == [width : 1..MaxSide, height : 1..MaxSide]

NoImage == [tag |-> "none"]

PageLayout(ref, det, text, order, hash) ==
    [ref |-> ref, det |-> det, text |-> text, order |-> order, hash |-> hash]

Page(index, image, body_layouts, footnotes_layouts, input_tokens, output_tokens) ==
    [index |-> index, image |-> image, body_layouts |-> body_layouts,
     footnotes_layouts |-> footnotes_layouts,
     input_tokens |-> input_tokens, output_tokens |-> output_tokens]

NoArgs == [tag |-> "none"]

NoResult == [kind |-> "none"]

Raised(error) == [kind |-> "raise", error |-> error]

Returned(page) == [kind |-> "page", page |-> page]

\* Variant: the bounding rectangle is built as (0, 0, height, width).
BuildPageTransposed(a, r) ==
    LET content == ResponseContent(r)
        usage == ResponseUsage(r)
        full_det == <<0, 0, a.image.height, a.image.width>>
        layout == PageLayout("text", full_det, _normalize_text(content.val), 0, NoneValue)
    IN  IF ~content.ok THEN Raised(PlainError("AttributeError"))
        ELSE Returned(Page(a.page_index,
                           IF a.includes_raw_image THEN a.image ELSE NoImage,
                           <<layout>>, <<>>, usage[1], usage[2]))

\* What follows the second abort check: read the response, build the Page.
BuildPage(a, r) ==
    LET content == ResponseContent(r)
        usage == ResponseUsage(r)
        full_det == <<0, 0, a.image.width, a.image.height>>
        layout == PageLayout("text", full_det, _normalize_text(content.val), 0, NoneValue)
    IN  IF ~content.ok THEN Raised(PlainError("AttributeError"))
        ELSE Returned(Page(a.page_index,
                           IF a.includes_raw_image THEN a.image ELSE NoImage,
                           <<layout>>, <<>>, usage[1], usage[2]))

-----------------------------------------------------------------------------
(* APIPageExtractor *)

\* Variant: a new client is constructed on every call.
_get_client_always_new(c, n) == [client |-> n + 1, constructed |-> n + 1]

\* _get_client: construct the client on first use, reuse it afterwards.
_get_client(c, n) ==
    IF c = 0 THEN [client |-> n + 1, constructed |-> n + 1]
    ELSE [client |-> c, constructed |-> n]

\* Variant: the request-phase failure is tagged with another step index.
RequestPhaseErrorOtherStep(err, page_index) ==
    IF IsInstance(err, "Exception") THEN OCRError(page_index, 2, err) ELSE err

\* `except Exception as err: raise OCRError(..., step_index=1) from err`;
\* an exception that is no instance of Exception passes through the clause.
RequestPhaseError(err, page_index) ==
    IF IsInstance(err, "Exception") THEN OCRError(page_index, 1, err) ELSE err

TransportRaised(err) == [tag |-> "raised", error |-> err]

\* What OpenAI(...) or chat.completions.create may raise.
TransportErrors ==
    {PlainError("Exception"), PlainError("KeyboardInterrupt"),
     TokenLimitError(MaxTok, 0), AbortError}

\* The responses the multi-call specification draws from.
FlowResponses ==
    {Response(ChoiceList(<<Choice(StrValue(<<"a">>))>>),
              Usage(IntValue(MaxTok), IntValue(MaxTok))),
     Response(ChoiceList(<<Choice(StrValue(<<"a">>))>>), NoneValue),
     Response(ChoiceList(<<>>), Usage(IntValue(0), IntValue(MaxTok))),
     Response(ChoiceList(<<ChoiceWithoutMessage>>), Usage(IntValue(MaxTok), IntValue(0))),
     Response([tag |-> "noattr"], NoneValue)}

NoCls == [tag |-> "none"]

\* Variant: the first abort check sits inside the try block of the request.
image2page_check_in_try(image, page_index, includes_footnotes, includes_raw_image) ==
    /\ pc = "idle"
    /\ calls < MaxCalls
    /\ calls' = calls + 1
    /\ args' = [image |-> image, page_index |-> page_index,
                includes_footnotes |-> includes_footnotes,
                includes_raw_image |-> includes_raw_image]
    /\ response' = NoResponse
    /\ cls' = NoCls
    /\ lastOp' = "image2page"
    /\ trace' = <<"probe">>
    /\ LET signal == check_aborted(aborted, importable) IN
         IF signal # NoError
         THEN result' = Raised(RequestPhaseError(signal, page_index)) /\ pc' = "idle"
         ELSE result' = NoResult /\ pc' = "request"
    /\ UNCHANGED <<aborted, importable, client, constructed, requests>>

\* image2page up to the first abort check (and the request's preparation).
image2page_check(image, page_index, includes_footnotes, includes_raw_image) ==
    /\ pc = "idle"
    /\ calls < MaxCalls
    /\ calls' = calls + 1
    /\ args' = [image |-> image, page_index |-> page_index,
                includes_footnotes |-> includes_footnotes,
                includes_raw_image |-> includes_raw_image]
    /\ response' = NoResponse
    /\ cls' = NoCls
    /\ lastOp' = "image2page"
    /\ trace' = <<"probe">>
    /\ LET signal == check_aborted(aborted, importable) IN
         IF signal # NoError
         THEN result' = Raised(signal) /\ pc' = "idle"
         ELSE result' = NoResult /\ pc' = "request"
    /\ UNCHANGED <<aborted, importable, client, constructed, requests>>

\* self._get_client() when OpenAI(...) raises: self._client stays None.
image2page_client_error(err) ==
    /\ pc = "request"
    /\ client = 0
    /\ response' = TransportRaised(err)
    /\ result' = Raised(RequestPhaseError(err, args.page_index))
    /\ pc' = "idle"
    /\ UNCHANGED <<args, aborted, importable, client, constructed, requests, calls,
                   trace, cls, lastOp>>

\* client.chat.completions.create(**kwargs) raises.
image2page_request_error(err) ==
    /\ pc = "request"
    /\ LET got == _get_client(client, constructed) IN
         /\ client' = got.client
         /\ constructed' = got.constructed
    /\ requests' = requests + 1
    /\ trace' = Append(trace, "request")
    /\ response' = TransportRaised(err)
    /\ result' = Raised(RequestPhaseError(err, args.page_index))
    /\ pc' = "idle"
    /\ UNCHANGED <<args, aborted, importable, calls, cls, lastOp>>

\* client.chat.completions.create(**kwargs) returns a response.
image2page_response(r) ==
    /\ pc = "request"
    /\ LET got == _get_client(client, constructed) IN
         /\ client' = got.client
         /\ constructed' = got.constructed
    /\ requests' = requests + 1
    /\ trace' = Append(trace, "request")
    /\ response' = r
    /\ pc' = "respond"
    /\ UNCHANGED <<args, aborted, importable, calls, result, cls, lastOp>>

\* Variant: the Page is built without the second abort check.
image2page_finish_unchecked ==
    /\ pc = "respond"
    /\ LET built == BuildPage(args, response) IN
         /\ result' = built
         /\ trace' = IF built.kind = "page" THEN Append(trace, "page") ELSE trace
    /\ pc' = "idle"
    /\ UNCHANGED <<args, aborted, importable, client, constructed, requests, calls,
                   response, cls, lastOp>>

\* image2page from the second abort check to its return.
image2page_finish ==
    /\ pc = "respond"
    /\ LET signal == check_aborted(aborted, importable)
           built == BuildPage(args, response)
       IN  IF signal # NoError
           THEN result' = Raised(signal) /\ trace' = Append(trace, "probe")
           ELSE /\ result' = built
                /\ trace' = IF built.kind = "page"
                            THEN trace \o <<"probe", "page">>
                            ELSE Append(trace, "probe")
    /\ pc' = "idle"
    /\ UNCHANGED <<args, aborted, importable, client, constructed, requests, calls,
                   response, cls, lastOp>>

download_models(revision) ==
    /\ pc = "idle"
    /\ lastOp' = "download_models"
    /\ UNCHANGED <<pc, args, aborted, importable, client, constructed, requests, calls,
                   response, trace, result, cls>>

load_models ==
    /\ pc = "idle"
    /\ lastOp' = "load_models"
    /\ UNCHANGED <<pc, args, aborted, importable, client, constructed, requests, calls,
                   response, trace, result, cls>>

\* The caller hands an exception to to_interrupted_error.
classify(error) ==
    /\ pc = "idle"
    /\ LET got == to_interrupted_error(error, importable) IN
         cls' = [error |-> error, outcome |-> got.outcome,
                 import_attempted |-> got.import_attempted]
    /\ lastOp' = "to_interrupted_error"
    /\ UNCHANGED <<pc, args, aborted, importable, client, constructed, requests, calls,
                   response, trace, result>>

\* The caller classifies the exception the last image2page call raised.
Classify ==
    /\ result.kind = "raise"
    /\ cls = NoCls
    /\ classify(result.error)

\* The caller's abort probe changes its answer (cancellation requested or withdrawn).
SetAborted ==
    /\ aborted' = ~aborted
    /\ UNCHANGED <<pc, args, importable, client, constructed, requests, calls,
                   response, trace, result, cls, lastOp>>

Init ==
    /\ pc = "idle"
    /\ args = NoArgs
    /\ aborted = FALSE
    /\ importable \in BOOLEAN
    /\ client = 0
    /\ constructed = 0
    /\ requests = 0
    /\ calls = 0
    /\ response = NoResponse
    /\ trace = <<>>
    /\ result = NoResult
    /\ cls = NoCls
    /\ lastOp = "init"

Next ==
    \/ \E image \in Images, page_index \in 0..MaxPage,
          includes_footnotes \in BOOLEAN, includes_raw_image \in BOOLEAN :
          image2page_check(image, page_index, includes_footnotes, includes_raw_image)
    \/ \E err \in TransportErrors : image2page_client_error(err)
    \/ \E err \in TransportErrors : image2page_request_error(err)
    \/ \E r \in FlowResponses : image2page_response(r)
    \/ image2page_finish
    \/ \E revision \in {"None", "main"} : download_models(revision)
    \/ load_models
    \/ Classify
    \/ SetAborted

Spec == Init /\ [][Next]_vars

-----------------------------------------------------------------------------
(* The classifier alone, over every shape of exception *)

DPETypes == {"DPEAbortError", "DPETokenLimitError", "DPEOtherAbortedError"}

Errors ==
    {PlainError(t) : t \in {"Exception", "KeyboardInterrupt", "AttributeError", "PDFError"}}
    \cup {OCRError(p, 1, PlainError("Exception")) : p \in 0..MaxPage}
    \cup {TokenLimitError(i, o) : i \in Tokens, o \in Tokens}
    \cup {AbortError}
    \cup {TokenError("AbortError", i, o) : i \in Tokens, o \in Tokens}
    \cup {TokenError(t, i, o) : t \in DPETypes, i \in Tokens, o \in Tokens}

NextClassifier == \E error \in Errors : classify(error)

SpecClassifier == Init /\ [][NextClassifier]_vars

-----------------------------------------------------------------------------
(* Uncancelled calls, over every shape of response *)

NextResponse ==
    \/ image2page_check([width |-> 1, height |-> MaxSide], MaxPage, FALSE, FALSE)
    \/ \E r \in Responses : image2page_response(r)
    \/ image2page_finish

SpecResponse == Init /\ [][NextResponse]_vars

-----------------------------------------------------------------------------
(* Properties *)

AbortSignalTypes == {"AbortError", "DPEAbortError"}

\* The step in which image2page runs its first abort check.
FirstCheckStep == pc = "idle" /\ calls' = calls + 1

\* C1: when the abort probe raises at the first checkpoint of image2page, the
\* call constructs no client and issues no request, returns no Page, raises
\* the signal itself (not wrapped in OCRError), and to_interrupted_error makes
\* an ABORT outcome of that signal.
C1_AbortBeforeRequest ==
    /\ [][(FirstCheckStep /\ aborted) =>
            /\ pc' = "idle"
            /\ trace' = <<"probe">>
            /\ client' = client /\ constructed' = constructed /\ requests' = requests
            /\ result'.kind = "raise"
            /\ result'.error = check_aborted(aborted, importable)
            /\ result'.error.type # "OCRError"
            /\ to_interrupted_error(result'.error, importable).outcome.kind = "ABORT"]_vars
    /\ []((cls # NoCls /\ trace = <<"probe">> /\ response = NoResponse) =>
            /\ cls.error = result.error
            /\ cls.outcome.kind = "ABORT")

C1_Witness ==
    /\ pc = "idle" /\ result.kind = "raise" /\ trace = <<"probe">>
    /\ response = NoResponse
    /\ requests = 0 /\ client = 0
    /\ cls # NoCls /\ cls.outcome.kind = "ABORT"

\* C2: a call that returns a Page ran, in order, one abort check, exactly one
\* request, one more abort check and the Page construction; no request is
\* issued without an abort check before it and no Page is built without an
\* abort check after the request.
C2_CheckpointOrder ==
    /\ result.kind = "page" => trace = <<"probe", "request", "probe", "page">>
    /\ \A i \in 1..Len(trace) :
          /\ trace[i] = "request" => \E j \in 1..(i - 1) : trace[j] = "probe"
          /\ trace[i] = "page" =>
                \E j \in 1..(i - 1), k \in 1..(i - 1) :
                    j < k /\ trace[j] = "request" /\ trace[k] = "probe"
    /\ Cardinality({i \in 1..Len(trace) : trace[i] = "request"}) <= 1

C2_Witness ==
    /\ result.kind = "page"
    /\ trace = <<"probe", "request", "probe", "page">>
    /\ calls = MaxCalls

\* The call in progress / last made ended in the request phase with the
\* transport raising.
RequestPhaseFailed == pc = "idle" /\ response.tag = "raised"

\* The outcome the claim states for a request-phase failure.
WrappedAsRequestFailure ==
    /\ result.kind = "raise"
    /\ result.error.type = "OCRError"
    /\ result.error.page_index = args.page_index
    /\ result.error.step_index = 1
    /\ result.error.cause = response.error
    /\ Len(trace) <= 2 /\ \A i \in 1..Len(trace) : trace[i] # "page"
    /\ Cardinality({i \in 1..Len(trace) : trace[i] = "probe"}) = 1

\* C3 as stated: every exception, of whatever type, raised while constructing
\* the client or issuing the request makes image2page fail with an OCRError
\* carrying the page index, step index 1 and the original exception as cause;
\* the second abort check is not run and no Page is returned.
C3_AnyExceptionWrapped == RequestPhaseFailed => WrappedAsRequestFailure

\* C3 amended: that holds of every exception that is an instance of Exception;
\* one that is not (KeyboardInterrupt, SystemExit) leaves image2page unchanged,
\* the second abort check still not run and no Page returned.
C3_ExceptionWrapped ==
    RequestPhaseFailed =>
        IF IsInstance(response.error, "Exception")
        THEN WrappedAsRequestFailure
        ELSE /\ result = Raised(response.error)
             /\ Len(trace) <= 2 /\ \A i \in 1..Len(trace) : trace[i] # "page"

C3_Witness ==
    /\ RequestPhaseFailed
    /\ response.error.type = "Exception"
    /\ trace = <<"probe", "request">>
    /\ result.error.type = "OCRError" /\ result.error.page_index = MaxPage

\* C4: the local shapes are classified first: a local TokenLimitError gives
\* TOKEN_LIMIT_EXCEEDED with exactly its counts, a local AbortError gives ABORT
\* with its attached counts or (0, 0), a generic exception gives None; for the
\* two local shapes the optional library's import is not attempted and the
\* result is the same whether or not it is importable.
C4_LocalShapesFirst ==
    cls # NoCls =>
        /\ cls.error.type = "TokenLimitError" =>
              /\ cls.outcome.kind = "TOKEN_LIMIT_EXCEEDED"
              /\ cls.outcome.metering =
                    [input_tokens |-> cls.error.input_tokens,
                     output_tokens |-> cls.error.output_tokens]
              /\ ~cls.import_attempted
        /\ cls.error.type = "AbortError" =>
              /\ cls.outcome.kind = "ABORT"
              /\ cls.outcome.metering =
                    IF cls.error.attached
                    THEN [input_tokens |-> cls.error.input_tokens,
                          output_tokens |-> cls.error.output_tokens]
                    ELSE [input_tokens |-> 0, output_tokens |-> 0]
              /\ ~cls.import_attempted
        /\ cls.error.type = "Exception" => cls.outcome = NotInterrupted

C4_Witness ==
    /\ cls # NoCls /\ ~importable
    /\ cls.error.type = "AbortError" /\ cls.error.attached
    /\ cls.outcome.kind = "ABORT"
    /\ cls.outcome.metering = [input_tokens |-> MaxTok, output_tokens |-> 0]

\* C5: an error that is neither local shape gives None when the optional
\* library is not importable; when it is, the library's AbortError gives ABORT
\* and its TokenLimitError gives TOKEN_LIMIT_EXCEEDED, each with the error's
\* counts, and an ExtractionAbortedError of neither subtype, like any error
\* outside the hierarchy, gives None.
C5_LibraryTier ==
    (cls # NoCls /\ cls.error.type \notin {"TokenLimitError", "AbortError"}) =>
        LET counts == [input_tokens |-> cls.error.input_tokens,
                       output_tokens |-> cls.error.output_tokens]
        IN  IF ~importable THEN cls.outcome = NotInterrupted
            ELSE CASE cls.error.type = "DPEAbortError" ->
                        cls.outcome = [kind |-> "ABORT", metering |-> counts]
                   [] cls.error.type = "DPETokenLimitError" ->
                        cls.outcome = [kind |-> "TOKEN_LIMIT_EXCEEDED",
                                       metering |-> counts]
                   [] OTHER -> cls.outcome = NotInterrupted

C5_Witness ==
    /\ cls # NoCls /\ importable
    /\ cls.error.type = "DPETokenLimitError"
    /\ cls.error.input_tokens = MaxTok
    /\ cls.outcome.kind = "TOKEN_LIMIT_EXCEEDED"

\* C6: the client is constructed successfully at most once and, once set, is
\* never replaced or reset, whatever image2page calls fail or are aborted;
\* download_models and load_models never raise, issue no request and leave
\* the client unchanged.
C6_SingleClient ==
    /\ [](constructed <= 1 /\ client \in {0, 1})
    /\ [][client # 0 => client' = client]_vars
    /\ [][lastOp' \in {"download_models", "load_models"} =>
            /\ client' = client /\ constructed' = constructed
            /\ requests' = requests
            /\ result' = result /\ pc' = pc]_vars

C6_Witness ==
    /\ calls = MaxCalls /\ requests = MaxCalls
    /\ constructed = 1 /\ client = 1
    /\ lastOp = "load_models"

\* The call in progress / last made was aborted at the second checkpoint.
AbortedAfterResponse ==
    /\ pc = "idle" /\ result.kind = "raise"
    /\ trace = <<"probe", "request", "probe">>
    /\ result.error.type \in AbortSignalTypes

\* C7: when the abort probe raises at the second checkpoint, the outcome
\* to_interrupted_error makes of the signal is an ABORT whose metering is the
\* prompt/completion token counts of the response already received.
C7_AbortCarriesUsage ==
    (AbortedAfterResponse /\ cls # NoCls) =>
        /\ cls.outcome.kind = "ABORT"
        /\ cls.outcome.metering =
              [input_tokens |-> ResponseUsage(response)[1],
               output_tokens |-> ResponseUsage(response)[2]]

\* The call in progress / last made failed while reading the response.
ResponsePhaseFailed ==
    /\ pc = "idle" /\ result.kind = "raise"
    /\ trace = <<"probe", "request", "probe">>
    /\ result.error.type \notin AbortSignalTypes

\* C8: every backend-specific failure of image2page, in request issuance or in
\* response handling, surfaces as an OCRError carrying the call's page index
\* and the step index of the failing phase.
C8_FailuresAreOCRErrors ==
    /\ (RequestPhaseFailed /\ IsInstance(response.error, "Exception")) =>
          /\ result.error.type = "OCRError"
          /\ result.error.page_index = args.page_index
          /\ result.error.step_index = 1
    /\ ResponsePhaseFailed =>
          /\ result.error.type = "OCRError"
          /\ result.error.page_index = args.page_index
          /\ result.error.step_index # 1

\* C9: a returned Page has the call's page_index, the input image exactly when
\* includes_raw_image, one body layout with det (0, 0, width, height), ref
\* "text", order 0 and no hash, and no footnote layouts, whatever the value of
\* includes_footnotes.
C9_DegradedLayout ==
    result.kind = "page" =>
        /\ result.page.index = args.page_index
        /\ result.page.image = IF args.includes_raw_image THEN args.image ELSE NoImage
        /\ Len(result.page.body_layouts) = 1
        /\ result.page.body_layouts[1].det =
              <<0, 0, args.image.width, args.image.height>>
        /\ result.page.body_layouts[1].ref = "text"
        /\ result.page.body_layouts[1].order = 0
        /\ result.page.body_layouts[1].hash = NoneValue
        /\ result.page.footnotes_layouts = <<>>

C9_Witness ==
    /\ result.kind = "page"
    /\ args.includes_raw_image /\ args.includes_footnotes
    /\ args.image = [width |-> 1, height |-> MaxSide]
    /\ args.page_index = MaxPage
    /\ result.page.image = args.image

\* The response has no choices, or a first choice with a message.
ChoicesReadable(r) ==
    \/ r.choices.tag = "none"
    \/ r.choices.tag = "list" /\ r.choices.items = <<>>
    \/ r.choices.tag = "list" /\ r.choices.items # <<>>
          /\ r.choices.items[1].message.tag = "obj"

\* The first choice's content is absent, empty or all whitespace.
ContentBlank(r) ==
    /\ r.choices.tag = "list" /\ r.choices.items # <<>>
    /\ r.choices.items[1].message.tag = "obj"
    /\ LET content == r.choices.items[1].message.content IN
          \/ content.tag = "none"
          \/ content.tag = "str" /\ \A i \in 1..Len(content.val) : content.val[i] = " "

\* The count the claim states for a sub-field of usage.
ExpectedCount(r, name) ==
    IF r.usage.tag # "obj" THEN 0
    ELSE IF r.usage[name].tag = "int" THEN r.usage[name].val ELSE 0

====
